---- MODULE Spec2Model ----
(***************************************************************************)
(* wordlirst: the pattern expander (main.rs: regex_words / walk_regex)     *)
(* and the word permuter (generate.rs: generate_permutations /             *)
(* add_transformations).                                                   *)
(*                                                                         *)
(* A Rust String is modelled as the sequence of its code points; its       *)
(* len() is the number of UTF-8 bytes (StrLen).  The alphabet of the       *)
(* model stays below U+0100.  A Vec is a sequence, an Option a sequence of *)
(* length at most one.  Numbers stay far below 2^31, so the u32/usize      *)
(* arithmetic of walk_regex never wraps here; the one place where the      *)
(* width decides the behaviour, the i32 shift of generate_permutations,    *)
(* is modelled with its width (shl_i32).                                   *)
(***************************************************************************)
EXTENDS Integers, Sequences, FiniteSets, TLC

VARIABLES
    profile,          \* build profile: "debug" | "release" (overflow checks)
    itertools_unit,   \* whether the linked itertools yields one empty tuple
                      \* for the product of no iterators (0.13+) or nothing
    input,            \* regex_words: the pattern, as parse() answers it
    gen,              \* regex_words: the Generator
    ast,              \* regex_words: `ast` once parsed, as <<hir>>
    possible,         \* regex_words: `possible`
    result,           \* regex_words: `result`
    rw_pc,            \* regex_words: position
    w,                \* generate_permutations: the base string
    replacements,     \* generate_permutations: the ReplacePair list
    word,             \* generate_permutations: `word`
    i,                \* generate_permutations: the loop variable
    bound,            \* generate_permutations: the end of the range 0..(1 << len)
    masks,            \* the values of i add_transformations was called for
    sink,             \* the lines written to the writer
    gp_pc             \* generate_permutations: position

vars == <<profile, itertools_unit, input, gen, ast, possible, result, rw_pc,
          w, replacements, word, i, bound, masks, sink, gp_pc>>

rw_vars == <<itertools_unit, input, gen, ast, possible, result, rw_pc>>
gp_vars == <<profile, w, replacements, word, i, bound, masks, sink, gp_pc>>

(***************************************************************************)
(* Bounds of the model.                                                    *)
(***************************************************************************)
\* min_length and max_length range over 0..MaxLen for every pattern
MaxLen == 3
\* one longer max_length, for the patterns without unbounded repetition
LongLen == 6
\* min_length and max_length range over 0..WideLen for the patterns with a
\* class of more than three characters
WideLen == 2

(***************************************************************************)
(* Strings.                                                                *)
(***************************************************************************)
\* the number of bytes char::to_string / String::push encode c in
Utf8Len(c) ==
    IF c < 128 THEN 1 ELSE IF c < 2048 THEN 2 ELSE IF c < 65536 THEN 3 ELSE 4

RECURSIVE StrLen(_)
\* String::len: the number of bytes
StrLen(s) == IF s = <<>> THEN 0 ELSE Utf8Len(Head(s)) + StrLen(Tail(s))

RECURSIVE join(_)
\* Itertools::join(""): the elements of a tuple of strings, one after another
join(x) == IF x = <<>> THEN <<>> ELSE Head(x) \o join(Tail(x))

IsCont(b, n) == n <= Len(b) /\ b[n] \in 128..191

RECURSIVE from_utf8(_)
\* std::str::from_utf8: Ok(text) or Err, over 1- to 4-byte sequences
from_utf8(b) ==
    IF b = <<>> THEN [ok |-> TRUE, text |-> <<>>]
    ELSE
      LET b1 == b[1]
          n == IF b1 < 128 THEN 1
               ELSE IF b1 \in 194..223 /\ IsCont(b, 2) THEN 2
               ELSE IF /\ b1 \in 224..239 /\ IsCont(b, 2) /\ IsCont(b, 3)
                       /\ (b1 = 224 => b[2] >= 160)
                       /\ (b1 = 237 => b[2] <= 159) THEN 3
               ELSE IF /\ b1 \in 240..244
                       /\ IsCont(b, 2) /\ IsCont(b, 3) /\ IsCont(b, 4)
                       /\ (b1 = 240 => b[2] >= 144)
                       /\ (b1 = 244 => b[2] <= 143) THEN 4
               ELSE 0
          cp == CASE n = 1 -> b1
                  [] n = 2 -> (b1 - 192) * 64 + (b[2] - 128)
                  [] n = 3 -> (b1 - 224) * 4096 + (b[2] - 128) * 64 + (b[3] - 128)
                  [] n = 4 -> (b1 - 240) * 262144 + (b[2] - 128) * 4096
                              + (b[3] - 128) * 64 + (b[4] - 128)
                  [] OTHER -> 0
      IN IF n = 0 THEN [ok |-> FALSE, text |-> <<>>]
         ELSE LET rest == from_utf8(SubSeq(b, n + 1, Len(b)))
              IN IF rest.ok
                 THEN [ok |-> TRUE, text |-> <<cp>> \o rest.text]
                 ELSE rest

(***************************************************************************)
(* The Hir of regex_syntax, one record shape for every HirKind.            *)
(***************************************************************************)
Hir(kind) ==
    [kind |-> kind, bytes |-> <<>>, ranges |-> <<>>, look |-> "", sub |-> <<>>,
     min |-> 0, max |-> <<>>]

Literal(bytes) == [Hir("Literal") EXCEPT !.bytes = bytes]
\* a Unicode class: its sorted, disjoint ranges <<start, end>> of code points
ClassUnicode(ranges) == [Hir("ClassUnicode") EXCEPT !.ranges = ranges]
ClassBytes(ranges) == [Hir("ClassBytes") EXCEPT !.ranges = ranges]
Look(which) == [Hir("Look") EXCEPT !.look = which]
Empty == Hir("Empty")
\* max is <<>> for None, <<n>> for Some(n)
Repetition(sub, min, max) ==
    [Hir("Repetition") EXCEPT !.sub = <<sub>>, !.min = min, !.max = max]
Capture(sub) == [Hir("Capture") EXCEPT !.sub = <<sub>>]
Concat(coll) == [Hir("Concat") EXCEPT !.sub = coll]
Alternation(coll) == [Hir("Alternation") EXCEPT !.sub = coll]

\* the placeholder literals b"%t" and b"%w"
TermsToken == <<37, 116>>
DictionaryToken == <<37, 119>>

(***************************************************************************)
(* walk_regex.  A call answers [ok |-> TRUE, words |-> its Vec<String>],   *)
(* or [ok |-> FALSE, ...] when it panics.                                  *)
(***************************************************************************)
Returned(words) == [ok |-> TRUE, words |-> words]
Panicked == [ok |-> FALSE, words |-> <<>>]

\* ClassUnicode::is_ascii: no range reaches past 0x7F
is_ascii(ranges) == \A n \in 1..Len(ranges) : ranges[n][2] <= 127

RECURSIVE class_chars(_)
\* s.iter().map(|x| x.start()..=x.end()).flatten(), each char as a String
class_chars(ranges) ==
    IF ranges = <<>> THEN <<>>
    ELSE LET lo == Head(ranges)[1]
             hi == Head(ranges)[2]
         IN [n \in 1..(hi - lo + 1) |-> <<lo + n - 1>>] \o class_chars(Tail(ranges))

RECURSIVE flatten(_)
\* Iterator::flatten over a Vec<Vec<String>>
flatten(xs) == IF xs = <<>> THEN <<>> ELSE Head(xs) \o flatten(Tail(xs))

RECURSIVE multi_cartesian_product_n(_)
\* the product of one or more pools, the last pool varying fastest
multi_cartesian_product_n(groups) ==
    IF Len(groups) = 0 THEN << <<>> >>
    ELSE LET h == Head(groups)
             rest == multi_cartesian_product_n(Tail(groups))
             nr == Len(rest)
         IN [n \in 1..(Len(h) * nr) |->
                <<h[((n - 1) \div nr) + 1]>> \o rest[((n - 1) % nr) + 1]]

\* Itertools::multi_cartesian_product; of no pools at all it yields one empty
\* tuple or nothing, depending on the itertools linked
multi_cartesian_product(groups, unit) ==
    IF Len(groups) = 0
    THEN (IF unit THEN << <<>> >> ELSE <<>>)
    ELSE multi_cartesian_product_n(groups)

\* the shortest pool member's len(), 0 for an empty pool
shortest_len(words) ==
    IF words = <<>> THEN 0
    ELSE CHOOSE m \in {StrLen(words[n]) : n \in 1..Len(words)} :
            \A n \in 1..Len(words) : m <= StrLen(words[n])

\* `max`: the explicit maximum, or max_length
rep_max(node, g) == IF node.max = <<>> THEN g.max_length ELSE node.max[1]

\* rep_last with the rounding term left out and the bound taken exclusive
rep_last_short(max, shortest) ==
    IF shortest = 0 THEN Panicked
    ELSE [ok |-> TRUE, words |-> <<>>, val |-> (max - 1) \div shortest]

\* `last`: (max + shortest - 1) / shortest in u32; shortest = 0 divides by
\* zero (and max = 0 underflows first in a debug build): a panic either way
rep_last(max, shortest) ==
    IF shortest = 0 THEN Panicked
    ELSE [ok |-> TRUE, words |-> <<>>, val |-> (max + shortest - 1) \div shortest]

\* the filter_map of one repetition count: is the joined text kept
rep_keep(text, g) == StrLen(text) <= g.max_length

\* the closure of into_par_iter().map: the texts of repetition count k
rep_count(words, k, g, unit) ==
    LET tuples == multi_cartesian_product([n \in 1..k |-> words], unit)
        texts == [n \in 1..Len(tuples) |-> join(tuples[n])]
    IN SelectSeq(texts, LAMBDA text : rep_keep(text, g))

\* concat_keep with < for <=
concat_keep_strict(x, g) ==
    LET lens == [n \in 1..Len(x) |-> StrLen(x[n])]
        RECURSIVE sum(_)
        sum(s) == IF s = <<>> THEN 0 ELSE Head(s) + sum(Tail(s))
    IN sum(lens) < g.max_length

\* the test of a Concat combination: is it joined and pushed
concat_keep(x, g) ==
    LET lens == [n \in 1..Len(x) |-> StrLen(x[n])]
        RECURSIVE sum(_)
        sum(s) == IF s = <<>> THEN 0 ELSE Head(s) + sum(Tail(s))
    IN sum(lens) <= g.max_length

RECURSIVE walk_regex(_, _, _)
RECURSIVE walk_all(_, _, _)
\* the recursive calls of a Concat or an Alternation, in order: the
\* sequence of the children's Vecs, or a panic
walk_all(coll, g, unit) ==
    IF coll = <<>> THEN Returned(<<>>)
    ELSE LET first == walk_regex(Head(coll), g, unit)
         IN IF ~first.ok THEN Panicked
            ELSE LET rest == walk_all(Tail(coll), g, unit)
                 IN IF ~rest.ok THEN Panicked
                    ELSE Returned(<<first.words>> \o rest.words)

walk_literal(node, g) ==
    IF node.bytes = TermsToken THEN Returned(g.terms)
    ELSE IF node.bytes = DictionaryToken THEN Returned(g.dictionary)
    ELSE LET text == from_utf8(node.bytes)
         IN IF text.ok THEN Returned(<<text.text>>) ELSE Panicked

walk_class(node) ==
    IF is_ascii(node.ranges) THEN Returned(class_chars(node.ranges))
    ELSE Returned(<<>>)

walk_repetition(node, g, unit) ==
    LET max == rep_max(node, g)
        zero == IF node.min = 0 THEN << <<>> >> ELSE <<>>
        sub == walk_regex(node.sub[1], g, unit)
    IN IF ~sub.ok THEN Panicked
       ELSE LET words == sub.words
                last == rep_last(max, shortest_len(words))
            IN IF ~last.ok THEN Panicked
               ELSE LET counts == [n \in 1..(last.val - node.min + 1) |->
                                     rep_count(words, node.min + n - 1, g, unit)]
                    IN Returned(zero \o flatten(counts))

walk_concat(node, g, unit) ==
    LET groups == walk_all(node.sub, g, unit)
    IN IF ~groups.ok THEN Panicked
       ELSE LET cartesian == multi_cartesian_product(groups.words, unit)
                kept == SelectSeq(cartesian, LAMBDA x : concat_keep(x, g))
            IN Returned([n \in 1..Len(kept) |-> join(kept[n])])

walk_alternation(node, g, unit) ==
    LET groups == walk_all(node.sub, g, unit)
    IN IF ~groups.ok THEN Panicked ELSE Returned(flatten(groups.words))

walk_regex(node, g, unit) ==
    CASE node.kind = "Look" -> Returned(<<>>)
      [] node.kind = "Empty" -> Returned(<<>>)
      [] node.kind = "Literal" -> walk_literal(node, g)
      [] node.kind = "ClassUnicode" -> walk_class(node)
      [] node.kind = "ClassBytes" -> Returned(<<>>)
      [] node.kind = "Repetition" -> walk_repetition(node, g, unit)
      [] node.kind = "Capture" -> walk_regex(node.sub[1], g, unit)
      [] node.kind = "Concat" -> walk_concat(node, g, unit)
      [] node.kind = "Alternation" -> walk_alternation(node, g, unit)

\* min_filter with > for >=
min_filter_strict(word_, g) == StrLen(word_) > g.min_length

\* the final filter of regex_words
min_filter(word_, g) == StrLen(word_) >= g.min_length

(***************************************************************************)
(* main: the Generator built from the command line.                        *)
(***************************************************************************)
is_whitespace(c) == c \in {9, 10, 11, 12, 13, 32}

RECURSIVE trim_start(_)
trim_start(s) ==
    IF s # <<>> /\ is_whitespace(Head(s)) THEN trim_start(Tail(s)) ELSE s

RECURSIVE trim_end(_)
trim_end(s) ==
    IF s # <<>> /\ is_whitespace(s[Len(s)])
    THEN trim_end(SubSeq(s, 1, Len(s) - 1)) ELSE s

\* str::trim
trim(s) == trim_end(trim_start(s))

\* read_dictionary: the lines trimmed, the empty and the over-long ones dropped
read_dictionary(lines, max_length) ==
    SelectSeq([n \in 1..Len(lines) |-> trim(lines[n])],
              LAMBDA x : StrLen(x) > 0 /\ StrLen(x) <= max_length)

\* main: the terms of the command line, the over-long ones dropped
filter_terms(terms, max_length) ==
    SelectSeq(terms, LAMBDA x : StrLen(x) <= max_length)

\* main: gen_info (without transforms, which regex_words never reads)
Generator(min_length, max_length, terms, lines) ==
    [min_length |-> min_length,
     max_length |-> max_length,
     terms |-> filter_terms(terms, max_length),
     dictionary |-> read_dictionary(lines, max_length)]

(***************************************************************************)
(* The inputs of the model: patterns as regex_syntax::parse answers them,  *)
(* the word lists of the command line, the length windows.                 *)
(***************************************************************************)
Ok(hir) == [valid |-> TRUE, hir |-> hir]
\* a pattern parse() rejects, such as "(" or "a{2,1}"
Invalid == [valid |-> FALSE, hir |-> Empty]

Lit_a == Literal(<<97>>)                               \* a
Lit_ab == Literal(<<97, 98>>)                          \* ab
Lit_c == Literal(<<99>>)                               \* c
Lit_abcd == Literal(<<97, 98, 99, 100>>)               \* abcd
Lit_eacute == Literal(<<195, 169>>)                    \* U+00E9 in UTF-8
\* a literal that is not UTF-8: a Hir walk_regex accepts, though parse()
\* with its default flags builds none
Lit_bad == Literal(<<255>>)
Lit_t == Literal(TermsToken)                           \* %t
Lit_w == Literal(DictionaryToken)                      \* %w
Cls_ab == ClassUnicode(<< <<97, 98>> >>)               \* [a-b]
Cls_ac == ClassUnicode(<< <<97, 99>> >>)               \* [a-c]
Cls_12 == ClassUnicode(<< <<49, 50>> >>)               \* [1-2]
Cls_13 == ClassUnicode(<< <<49, 51>> >>)               \* [1-3]
Cls_1ab == ClassUnicode(<< <<49, 49>>, <<97, 98>> >>)  \* [1a-b]
Cls_latin == ClassUnicode(<< <<224, 226>> >>)          \* U+00E0..U+00E2
Cls_az == ClassUnicode(<< <<97, 122>> >>)              \* [a-z]
Cls_ad == ClassUnicode(<< <<97, 100>> >>)              \* [a-d]
Cls_16 == ClassUnicode(<< <<49, 54>> >>)               \* [1-6]
Plus(sub) == Repetition(sub, 1, <<>>)
Star(sub) == Repetition(sub, 0, <<>>)

Patterns ==
    { Empty,                                           \* (the empty pattern)
      Look("End"),                                     \* $
      Look("Start"),                                   \* ^
      Lit_a, Lit_abcd, Lit_eacute, Lit_bad, Lit_t, Lit_w,
      Cls_ab, Cls_ac, Cls_1ab, Cls_latin,
      ClassBytes(<< <<97, 98>> >>),                    \* (?-u:[a-b])
      Capture(Lit_abcd),                               \* (abcd)
      Capture(Cls_ab),                                 \* ([a-b])
      Alternation(<<Lit_ab, Lit_c>>),                  \* ab|c
      Alternation(<<Lit_abcd, Lit_a>>),                \* abcd|a
      Alternation(<<Lit_t, Lit_w>>),                   \* %t|%w
      Alternation(<<Cls_ab, Lit_ab>>),                 \* [a-b]|ab
      Plus(Cls_ab),                                    \* [a-b]+
      Plus(Cls_ac),                                    \* [a-c]+
      Plus(Cls_1ab),                                   \* [1a-b]+
      Plus(Cls_az),                                    \* [a-z]+
      Star(Cls_ab),                                    \* [a-b]*
      Repetition(Cls_ab, 0, <<1>>),                    \* [a-b]?
      Repetition(Cls_ab, 2, <<2>>),                    \* [a-b]{2}
      Repetition(Cls_ab, 1, <<3>>),                    \* [a-b]{1,3}
      Repetition(Capture(Lit_ab), 3, <<3>>),           \* (ab){3}
      Repetition(Capture(Lit_ab), 1, <<3>>),           \* (ab){1,3}
      Repetition(Capture(Lit_ab), 0, <<2>>),           \* (ab){0,2}
      Repetition(Capture(Alternation(<<Lit_ab, Lit_c>>)), 1, <<2>>),  \* (ab|c){1,2}
      Repetition(Capture(Alternation(<<Lit_ab, Lit_abcd>>)), 2, <<3>>),  \* (ab|abcd){2,3}
      Star(Capture(Lit_t)),                            \* (%t)*
      Plus(Capture(Lit_t)),                            \* (%t)+
      Repetition(Capture(Lit_w), 0, <<2>>),            \* (%w){0,2}
      Repetition(Capture(Lit_t), 1, <<2>>),            \* (%t){1,2}
      Star(Capture(Repetition(Lit_a, 0, <<1>>))),      \* (a?)*
      Star(Capture(Lit_bad)),
      Concat(<<Cls_ac, Cls_13>>),                      \* [a-c][1-3]
      Concat(<<Cls_ab, Cls_12, Cls_ab>>),              \* [a-b][1-2][a-b]
      Concat(<<Lit_ab, Cls_12>>),                      \* ab[1-2]
      Concat(<<Lit_a, Look("End")>>),                  \* a$
      Concat(<<Look("Start"), Cls_ab>>),               \* ^[a-b]
      Concat(<<Cls_ab, Look("End"), Cls_12>>),         \* [a-b]$[1-2]
      Concat(<<Capture(Lit_t), Capture(Lit_w)>>),      \* (%t)(%w)
      Concat(<<Lit_t, Cls_12>>),                       \* %t[1-2]
      Concat(<<Capture(Alternation(<<Lit_ab, Lit_c>>)), Cls_12>>),  \* (ab|c)[1-2]
      Concat(<<Plus(Cls_ab), Plus(Cls_12)>>),          \* [a-b]+[1-2]+
      Concat(<<Plus(Cls_ac), Plus(Cls_12)>>),          \* [a-c]+[1-2]+
      Concat(<<Plus(Cls_ab), Plus(Cls_13)>>),          \* [a-b]+[1-3]+
      Concat(<<Plus(Cls_ad), Plus(Cls_16)>>),          \* [a-d]+[1-6]+
      Concat(<<Star(Cls_ab), Lit_c>>),                 \* [a-b]*c
      Concat(<<Lit_a, Lit_bad>>) }

Inputs == {Invalid} \cup {Ok(hir) : hir \in Patterns}

RECURSIVE Unbounded(_)
\* does the pattern hold a repetition without an explicit maximum
Unbounded(node) ==
    \/ node.kind = "Repetition" /\ node.max = <<>>
    \/ \E n \in 1..Len(node.sub) : Unbounded(node.sub[n])

RECURSIVE Wide(_)
\* does the pattern hold a class of more than three characters
Wide(node) ==
    \/ /\ node.kind = "ClassUnicode"
       /\ Len(class_chars(node.ranges)) > 3
    \/ \E n \in 1..Len(node.sub) : Wide(node.sub[n])

\* <<min_length, max_length>>
Windows(inp) ==
    IF Wide(inp.hir)
    THEN {<<mn, mx>> : mn \in 0..WideLen, mx \in 0..WideLen}
    ELSE {<<mn, mx>> : mn \in 0..MaxLen, mx \in 0..MaxLen}
           \cup (IF Unbounded(inp.hir) THEN {}
                 ELSE {<<0, LongLen>>, <<LongLen, LongLen>>})

\* the --terms of the command line and the lines of the dictionary file
WordLists ==
    { [terms |-> <<>>, lines |-> <<>>],
      [terms |-> << <<97, 98>>, <<99>> >>,                       \* ab,c
       lines |-> << <<32, 100, 101, 32>>, <<>>, <<102>> >>],     \* " de ", "", "f"
      [terms |-> << <<>>, <<97, 98, 99, 100>> >>,                \* "",abcd
       lines |-> << <<32>>, <<100, 101, 102, 103>> >>] }         \* " ", "defg"

(***************************************************************************)
(* regex_words.                                                            *)
(***************************************************************************)
RwInit ==
    /\ \E inp \in Inputs : \E win \in Windows(inp) : \E lists \in WordLists :
          /\ input = inp
          /\ gen = Generator(win[1], win[2], lists.terms, lists.lines)
    /\ itertools_unit \in BOOLEAN
    /\ ast = <<>>
    /\ possible = <<>>
    /\ result = <<>>
    /\ rw_pc = "start"

GpIdle ==
    /\ profile = "release"
    /\ w = <<>>
    /\ replacements = <<>>
    /\ word = <<>>
    /\ i = 0
    /\ bound = 0
    /\ masks = <<>>
    /\ sink = <<>>
    /\ gp_pc = "idle"

Init == RwInit /\ GpIdle

\* parse_expect with the Err of parse replaced by the empty pattern
parse_or_empty(inp) == [ok |-> TRUE, hir |-> IF inp.valid THEN inp.hir ELSE Empty]

\* parse(input).expect("regex is invalid"): an Err of parse panics
parse_expect(inp) == [ok |-> inp.valid, hir |-> inp.hir]

\* let ast = parse(input).expect("regex is invalid")
Parse ==
    /\ rw_pc = "start"
    /\ IF parse_expect(input).ok
       THEN ast' = <<parse_expect(input).hir>> /\ rw_pc' = "parsed"
       ELSE ast' = ast /\ rw_pc' = "panicked"
    /\ UNCHANGED <<itertools_unit, input, gen, possible, result>>
    /\ UNCHANGED gp_vars

\* let possible = walk_regex(&ast, &gen)
Walk ==
    /\ rw_pc = "parsed"
    /\ LET walked == walk_regex(ast[1], gen, itertools_unit)
       IN IF walked.ok
          THEN possible' = walked.words /\ rw_pc' = "walked"
          ELSE possible' = possible /\ rw_pc' = "panicked"
    /\ UNCHANGED <<itertools_unit, input, gen, ast, result>>
    /\ UNCHANGED gp_vars

\* the filter on min_length, and the return
Filter ==
    /\ rw_pc = "walked"
    /\ result' = SelectSeq(possible, LAMBDA x : min_filter(x, gen))
    /\ rw_pc' = "returned"
    /\ UNCHANGED <<itertools_unit, input, gen, ast, possible>>
    /\ UNCHANGED gp_vars

Next == Parse \/ Walk \/ Filter

Spec == Init /\ [][Next]_vars

(***************************************************************************)
(* generate.rs: generate_permutations and add_transformations.             *)
(***************************************************************************)
ReplacePair(from, to) == [from |-> from, to |-> to]

\* char::to_lowercase, below U+0100
to_lowercase_char(c) ==
    IF c \in 65..90 \/ c \in 192..214 \/ c \in 216..222 THEN c + 32 ELSE c

\* String::to_lowercase
to_lowercase(s) == [n \in 1..Len(s) |-> to_lowercase_char(s[n])]

\* char::to_ascii_uppercase
to_ascii_uppercase(c) == IF c \in 97..122 THEN c - 32 ELSE c

RECURSIVE pow2(_)
pow2(n) == IF n = 0 THEN 1 ELSE 2 * pow2(n - 1)

\* 1 << len in i32: a shift of 32 or more panics in a debug build and is
\* taken modulo 32 in a release build; 1 << 31 is i32::MIN
shl_i32(len, prof) ==
    IF len >= 32 /\ prof = "debug" THEN [ok |-> FALSE, val |-> 0]
    ELSE IF len % 32 = 31 THEN [ok |-> TRUE, val |-> -2147483647 - 1]
    ELSE [ok |-> TRUE, val |-> pow2(len % 32)]

\* (i >> j) & 1 == 1 in i32, for i >= 0 (bit 31 is then 0); the loop runs
\* with j >= 32 in a release build only, where the shift is taken modulo 32
mask_bit(mask, j) == j % 32 # 31 /\ (mask \div pow2(j % 32)) % 2 = 1

\* `combination`: the characters of word whose bit is set, upper-cased
combination(word_, mask) ==
    [n \in 1..Len(word_) |->
        IF mask_bit(mask, n - 1) THEN to_ascii_uppercase(word_[n]) ELSE word_[n]]

\* pair_applies blind to the case of c
pair_applies_any_case(c, r) == to_lowercase_char(c) = r.from

\* c == r.from()
pair_applies(c, r) == c = r.from

\* the successors of one partial string for the character c
successors(combo, c, reps) ==
    <<combo \o <<c>>>> \o
    [n \in 1..Len(SelectSeq(reps, LAMBDA r : pair_applies(c, r))) |->
        combo \o <<SelectSeq(reps, LAMBDA r : pair_applies(c, r))[n].to>>]

RECURSIVE transform_loop(_, _, _)
\* the loop over word.chars(): `current` after the characters left
transform_loop(current, left, reps) ==
    IF left = <<>> THEN current
    ELSE transform_loop(
           flatten([n \in 1..Len(current) |-> successors(current[n], Head(left), reps)]),
           Tail(left), reps)

\* add_transformations: the lines it writes, in order
add_transformations(word_, reps) == transform_loop(<< <<>> >>, word_, reps)

(***************************************************************************)
(* The inputs of generate_permutations.                                    *)
(***************************************************************************)
\* the base strings have up to MaxWord characters of Alphabet
MaxWord == 2

\* a, b, A, 1, U+00E9, U+00C9
Alphabet == {97, 98, 65, 49, 233, 201}

Repeat(c, n) == [k \in 1..n |-> c]

BaseWords ==
    UNION {[1..n -> Alphabet] : n \in 0..MaxWord}
      \cup { Repeat(233, 15) \o <<99>>,     \* 31 bytes
             Repeat(233, 16),               \* 32 bytes
             Repeat(233, 16) \o <<99>> }    \* 33 bytes

ReplacementLists ==
    { <<>>,
      <<ReplacePair(97, 64)>>,                                          \* a=@
      <<ReplacePair(97, 64), ReplacePair(98, 56), ReplacePair(97, 52)>>,  \* a=@,b=8,a=4
      <<ReplacePair(65, 52), ReplacePair(49, 33)>> }                    \* A=4,1=!

GpInit ==
    /\ profile \in {"debug", "release"}
    /\ w \in BaseWords
    /\ replacements \in ReplacementLists
    /\ word = <<>>
    /\ i = 0
    /\ bound = 0
    /\ masks = <<>>
    /\ sink = <<>>
    /\ gp_pc = "call"

RwIdle ==
    /\ itertools_unit = TRUE
    /\ input = Invalid
    /\ gen = Generator(0, 0, <<>>, <<>>)
    /\ ast = <<>>
    /\ possible = <<>>
    /\ result = <<>>
    /\ rw_pc = "idle"

PermInit == GpInit /\ RwIdle

\* let word = w.to_lowercase(); the range 0..(1 << word.len())
GpEnter ==
    /\ gp_pc = "call"
    /\ word' = to_lowercase(w)
    /\ LET end == shl_i32(StrLen(to_lowercase(w)), profile)
       IN IF end.ok
          THEN bound' = end.val /\ gp_pc' = "loop"
          ELSE bound' = bound /\ gp_pc' = "panicked"
    /\ i' = 0
    /\ UNCHANGED <<profile, w, replacements, masks, sink>>
    /\ UNCHANGED rw_vars

\* one pass of the loop: the combination of i, and add_transformations on it
GpIterate ==
    /\ gp_pc = "loop"
    /\ i < bound
    /\ sink' = sink \o add_transformations(combination(word, i), replacements)
    /\ masks' = Append(masks, i)
    /\ i' = i + 1
    /\ UNCHANGED <<profile, w, replacements, word, bound, gp_pc>>
    /\ UNCHANGED rw_vars

\* one pass of the loop in which a write_all fails: the lines before it are
\* written, the error is returned by `?`
GpWriteFails ==
    /\ gp_pc = "loop"
    /\ i < bound
    /\ \E k \in 0..(Len(add_transformations(combination(word, i), replacements)) - 1) :
          sink' = sink \o
                  SubSeq(add_transformations(combination(word, i), replacements), 1, k)
    /\ masks' = Append(masks, i)
    /\ gp_pc' = "failed"
    /\ UNCHANGED <<profile, w, replacements, word, i, bound>>
    /\ UNCHANGED rw_vars

\* the range is exhausted: Ok(())
GpReturn ==
    /\ gp_pc = "loop"
    /\ i >= bound
    /\ gp_pc' = "done"
    /\ UNCHANGED <<profile, w, replacements, word, i, bound, masks, sink>>
    /\ UNCHANGED rw_vars

PermNext == GpEnter \/ GpIterate \/ GpWriteFails \/ GpReturn

PermSpec == PermInit /\ [][PermNext]_vars

(***************************************************************************)
(* Properties of regex_words and walk_regex, checked under Spec.           *)
(***************************************************************************)
Range(s) == {s[n] : n \in 1..Len(s)}

Walked == rw_pc \in {"walked", "returned"}

\* the pool of the sub-node of a Repetition
SubPool(node) == walk_regex(node.sub[1], gen, itertools_unit)

Smaller(a, b) == IF a <= b THEN a ELSE b

\* C1: with min_length <= max_length, every string regex_words returns has
\* a length within [min_length, max_length], whatever the top-level node.
C1_LengthWindow ==
    (rw_pc = "returned" /\ gen.min_length <= gen.max_length)
      => \A n \in 1..Len(result) :
            /\ gen.min_length <= StrLen(result[n])
            /\ StrLen(result[n]) <= gen.max_length

\* C2: a Repetition with an explicit max over a pool of non-empty strings
\* yields the join of every k-tuple of the pool, min <= k <= max, that fits
\* max_length, and nothing else.  (A k-tuple of non-empty strings is at
\* least k long, so counts above max_length need no enumeration.)
C2_ExplicitMaxAllCounts ==
    (/\ Walked
     /\ ast[1].kind = "Repetition"
     /\ ast[1].max # <<>>
     /\ SubPool(ast[1]).ok
     /\ \A x \in Range(SubPool(ast[1]).words) : x # <<>>)
      => LET pool == Range(SubPool(ast[1]).words)
             counts == ast[1].min..Smaller(ast[1].max[1], gen.max_length)
             fits == {join(t) : t \in UNION {[1..k -> pool] : k \in counts}}
         IN /\ \A x \in fits : StrLen(x) <= gen.max_length => x \in Range(possible)
            /\ \A x \in Range(possible) : x \in fits

IsZeroWidth(node) == node.kind \in {"Empty", "Look"}

\* the Concat without its zero-width children
WithoutZeroWidth(node) ==
    LET rest == SelectSeq(node.sub, LAMBDA x : ~IsZeroWidth(x))
    IN IF Len(rest) = 1 THEN rest[1] ELSE Concat(rest)

\* C4: an Empty or Look node yields the single candidate "", and a Concat
\* holding such a node yields what the Concat without it yields.
C4_ZeroWidthIsEmptyString ==
    Walked =>
      /\ IsZeroWidth(ast[1]) => possible = << <<>> >>
      /\ (ast[1].kind = "Concat" /\ \E n \in 1..Len(ast[1].sub) : IsZeroWidth(ast[1].sub[n]))
           => possible = walk_regex(WithoutZeroWidth(ast[1]), gen, itertools_unit).words

\* C5: a Repetition with min = 0 returns, for every pool its sub-node gives
\* (the empty pool and a pool holding "" included), and its result holds "".
C5_MinZeroHasEmpty ==
    (/\ rw_pc \in {"walked", "returned", "panicked"}
     /\ ast # <<>>
     /\ ast[1].kind = "Repetition"
     /\ ast[1].min = 0
     /\ SubPool(ast[1]).ok)
      => /\ rw_pc # "panicked"
         /\ <<>> \in Range(possible)

RECURSIVE HasBadLiteral(_)
\* does the pattern hold a literal, not a placeholder, that is not UTF-8
HasBadLiteral(node) ==
    \/ /\ node.kind = "Literal"
       /\ node.bytes \notin {TermsToken, DictionaryToken}
       /\ ~from_utf8(node.bytes).ok
    \/ \E n \in 1..Len(node.sub) : HasBadLiteral(node.sub[n])

Fails == ~input.valid \/ HasBadLiteral(input.hir)

\* C6 as claimed: on a pattern that does not parse or a literal that does
\* not decode, regex_words does not panic (it returns an error value).
C6_NoPanicOnFailure == Fails => rw_pc # "panicked"

\* C6 as amended: on such a pattern regex_words panics; it never reaches
\* its filter or its return, it leaves no result, and the panic ends the call.
C6_FailureIsOnePanic ==
    /\ Fails => /\ rw_pc \in {"start", "parsed", "panicked"}
                /\ result = <<>>
                /\ possible = <<>>
    /\ (Fails /\ ~ENABLED Next) => rw_pc = "panicked"
    /\ rw_pc = "panicked" => ~ENABLED Next

C6_Witness == rw_pc = "panicked" /\ ~input.valid

ClassSet(node) == UNION {(node.ranges[n][1])..(node.ranges[n][2]) : n \in 1..Len(node.ranges)}

\* C+ over an ASCII class
IsPlusClass(node) ==
    /\ node.kind = "Repetition"
    /\ node.min = 1
    /\ node.max = <<>>
    /\ node.sub[1].kind = "ClassUnicode"
    /\ is_ascii(node.sub[1].ranges)

\* the strings of length lo..hi over the characters of C
Strings(C, lo, hi) == UNION {[1..L -> C] : L \in lo..hi}

\* C7: for C+ over a class of single characters and 1 <= min_length <=
\* max_length, regex_words returns the strings over C of the lengths
\* min_length..max_length, each exactly once.
C7_PlusClassExact ==
    (/\ rw_pc = "returned"
     /\ IsPlusClass(ast[1])
     /\ 1 <= gen.min_length
     /\ gen.min_length <= gen.max_length)
      => LET expected == Strings(ClassSet(ast[1].sub[1]), gen.min_length, gen.max_length)
         IN /\ Range(result) = expected
            /\ Len(result) = Cardinality(expected)

C7_Witness ==
    /\ rw_pc = "returned"
    /\ ast[1] = Plus(Cls_ac)
    /\ gen.min_length = 2
    /\ gen.max_length = 3
    /\ Len(result) = 36

RECURSIVE Power(_, _)
Power(b, e) == IF e = 0 THEN 1 ELSE b * Power(b, e - 1)

RECURSIVE LengthTotal(_, _, _, _)
\* the inner loop: the sum over n..L-1 of p^(L-n) * q^n
LengthTotal(p, q, L, n) ==
    IF n >= L THEN 0
    ELSE Power(p, L - n) * Power(q, n) + LengthTotal(p, q, L, n + 1)

RECURSIVE TotalCreations(_, _, _, _)
\* the sum over L in lo..hi of the sum over n in 1..L-1 of p^(L-n) * q^n
TotalCreations(p, q, lo, hi) ==
    IF lo > hi THEN 0
    ELSE LengthTotal(p, q, lo, 1) + TotalCreations(p, q, lo + 1, hi)

IsPlusPlus(node) ==
    /\ node.kind = "Concat"
    /\ Len(node.sub) = 2
    /\ IsPlusClass(node.sub[1])
    /\ IsPlusClass(node.sub[2])

\* C8: for A+B+ over classes of p and q single characters and 2 <=
\* min_length <= max_length, regex_words returns one string per pair (u, v),
\* u over A and v over B, both non-empty, whose lengths add up to a length
\* of the window: TotalCreations(p, q, min_length, max_length) strings.
C8_PlusPlusCount ==
    (/\ rw_pc = "returned"
     /\ IsPlusPlus(ast[1])
     /\ 2 <= gen.min_length
     /\ gen.min_length <= gen.max_length)
      => LET A == ClassSet(ast[1].sub[1].sub[1])
             B == ClassSet(ast[1].sub[2].sub[1])
             pairs == {uv \in Strings(A, 1, gen.max_length) \X Strings(B, 1, gen.max_length) :
                         /\ Len(uv[1]) + Len(uv[2]) >= gen.min_length
                         /\ Len(uv[1]) + Len(uv[2]) <= gen.max_length}
         IN /\ Len(result) = TotalCreations(Cardinality(A), Cardinality(B),
                                            gen.min_length, gen.max_length)
            /\ Len(result) = Cardinality(pairs)
            /\ Range(result) = {uv[1] \o uv[2] : uv \in pairs}

C8_Witness ==
    /\ rw_pc = "returned"
    /\ ast[1] = Concat(<<Plus(Cls_ac), Plus(Cls_12)>>)
    /\ gen.min_length = 2
    /\ gen.max_length = 3
    /\ Len(result) = 36

\* the results of the children of a Concat
Groups(node) == [n \in 1..Len(node.sub) |-> walk_regex(node.sub[n], gen, itertools_unit).words]

RECURSIVE Weight(_, _)
\* the number of combinations of the groups after position p
Weight(groups, p) ==
    IF p >= Len(groups) THEN 1 ELSE Len(groups[p + 1]) * Weight(groups, p + 1)

\* the m-th combination (from 0), the last group varying fastest
Combination(groups, m) ==
    [p \in 1..Len(groups) |->
        groups[p][((m \div Weight(groups, p)) % Len(groups[p])) + 1]]

RECURSIVE TotalLen(_)
TotalLen(x) == IF x = <<>> THEN 0 ELSE StrLen(Head(x)) + TotalLen(Tail(x))

A1C3 ==
    << <<97, 49>>, <<97, 50>>, <<97, 51>>, <<98, 49>>, <<98, 50>>, <<98, 51>>,
       <<99, 49>>, <<99, 50>>, <<99, 51>> >>

\* C9: the result of a Concat is, in the order of the cartesian product with
\* the last sub-node varying fastest, the join of every combination of one
\* element per sub-node whose total length is at most max_length, and of no
\* other; [a-c][1-3] with min = max = 2 gives a1, a2, a3, b1, ..., c3.
C9_ConcatIsPrunedProduct ==
    /\ (Walked /\ ast[1].kind = "Concat")
         => LET groups == Groups(ast[1])
                all == [m \in 1..Weight(groups, 0) |-> Combination(groups, m - 1)]
                kept == SelectSeq(all, LAMBDA x : TotalLen(x) <= gen.max_length)
            IN /\ Len(possible) = Len(kept)
               /\ \A n \in 1..Len(kept) : possible[n] = join(kept[n])
    /\ (/\ rw_pc = "returned"
        /\ ast[1] = Concat(<<Cls_ac, Cls_13>>)
        /\ gen.min_length = 2
        /\ gen.max_length = 2)
         => result = A1C3

C9_Witness ==
    /\ rw_pc = "returned"
    /\ ast[1] = Concat(<<Cls_ac, Cls_13>>)
    /\ gen.min_length = 2
    /\ gen.max_length = 2
    /\ Len(result) = 9

(***************************************************************************)
(* Properties of generate_permutations, checked under PermSpec.            *)
(***************************************************************************)
Word_ab == <<97, 98>>
a_to_at == <<ReplacePair(97, 64)>>

AbCase == gp_pc = "done" /\ w = Word_ab /\ replacements = a_to_at

\* C3 as claimed: for "ab" and a=@ generate_permutations writes 8 lines,
\* two for each of the variants ab, Ab, aB, AB, each of length 2.
C3_EightLines ==
    AbCase =>
      /\ Len(sink) = 8
      /\ \A m \in 0..3 : Len(add_transformations(combination(word, m), replacements)) = 2
      /\ \A n \in 1..Len(sink) : StrLen(sink[n]) = 2

\* C3 as amended: for "ab" and a=@ generate_permutations writes the 6 lines
\* ab, @b, Ab, aB, @B, AB: two for each of the variants ab and aB, one for
\* each of Ab and AB (a=@ does not apply to A), each of length 2.
C3_SixLines ==
    AbCase =>
      /\ sink = << <<97, 98>>, <<64, 98>>, <<65, 98>>,
                   <<97, 66>>, <<64, 66>>, <<65, 66>> >>
      /\ \A n \in 1..Len(sink) : StrLen(sink[n]) = 2

C3_Witness == AbCase /\ Len(sink) = 6

\* C10: for every base string of n characters generate_permutations runs
\* the substitution stage once for each mask 0, 1, ..., 2^n - 1, in
\* increasing order, none skipped or repeated, every bit of a mask standing
\* for a character of the string.
C10_AllMasksOnce ==
    gp_pc \in {"done", "panicked"} =>
      /\ gp_pc = "done"
      /\ masks = [n \in 1..pow2(Len(w)) |-> n - 1]

====
